---- MODULE Spec2Model ----
(***************************************************************************)
(* A state-machine model of script.py (release radar): the rate-limited   *)
(* call wrapper, the artist affinity file, the recency ranks, the release *)
(* detector, the playlist resolution, the playlist reconciler, the expiry *)
(* sweep and the digest.  Each component has its own specification; the   *)
(* variables of the components a specification does not exercise stay at  *)
(* their idle values.                                                      *)
(***************************************************************************)
EXTENDS Integers, Sequences, FiniteSets, TLC

VARIABLES
    callPc,        \* safe_spotify_call: "attempt" | "returned" | "raised" | "off"
    callAttempts,  \* number of invocations of func so far
    callSleeps,    \* the durations passed to time.sleep, in order
    callLast,      \* outcome of the latest invocation of func
    callResult,    \* value returned / exception raised to the caller
    recPc,         \* add_new_releases_to_playlist: "snapshot" | "loop" | "done" | "off"
    recRun,        \* 1 for the first run, 2 for the run repeated right after it
    playlist,      \* the remote playlist: its entries' track ids, in order
    releases,      \* the ranked candidate list handed to the reconciler
    recIdx,        \* index of the candidate the for loop handles next
    existing_track_ids,
    artist_existing_track,
    artist_existing_releases,
    added_releases,
    notified_artists,
    recAdds,       \* playlist_add_items calls of this run, in order, each
                   \* with the candidate it was made for
    recRemoves,    \* playlist_remove_all_occurrences_of_items calls of this
                   \* run, each with the number of entries it removed
    swPc,          \* remove_old_tracks_from_playlist: "page" | "done" | "off"
    swEntries,     \* the remote playlist's entries, with their added_at
    swInitial,     \* the entries when the sweep started
    swOffset,      \* offset
    swRemovedCount,\* removed_count
    detPc,         \* check_new_releases: "loop" | "sort" | "done" | "off"
    detNow,        \* datetime.datetime.now() as line 180 read it
    detArtists,    \* artists_data["artists"].items(), in iteration order
    detScores,     \* recent_scores
    detIdx,        \* index of the artist the for loop handles next
    detReleases,   \* releases, in the order they were appended
    detQueried,    \* the artists sp.artist_albums was called for, in order
    detSorted,     \* releases_sorted, the list returned
    afPc,          \* update_artists_file: "load" | "scan" | "merge" | "save"
                   \* | "dump" | "done" | "aborted" | "failed" | "crashed"
                   \* | "off"
    afRun,         \* number of the run of update_artists_file
    afFile,        \* artists.json, the durable state
    afBefore,      \* artists.json as it was when this run started
    afLibrary,     \* the items of the saved-tracks library during this run
    afLoaded,      \* data["artists"] as loaded at the start of this run
    afData,        \* data["artists"]
    afLiked,       \* liked_counts
    afOffset,      \* offset
    afLookups,     \* the artists fetch_lastfm_play_counts was called for in
                   \* this run
    plPc,          \* get_or_create_playlist: "id" | "name" | "create" | "done"
                   \* | "off"
    plRun,         \* number of the run of get_or_create_playlist
    plConfigured,  \* PLAYLIST_ID: "unset", or set to a playlist that is
                   \* "reachable" or "unreachable"
    plPlaylists,   \* the names of the listener's playlists, in the order
                   \* sp.current_user_playlists lists them
    plResult,      \* the playlist returned
    plCreated,     \* number of sp.user_playlist_create calls so far
    smsPc,         \* send_sms: "start" | "done" | "off"
    smsReleases,   \* new_releases
    smsListed,     \* the releases of the numbered lines of message_body
    smsMore,       \* the count of the "+ n more releases" line, 0 without it
    smsSent,       \* whether the message was posted
    rkPc,          \* fetch_recent_listening_scores: "loop" | "done" | "off"
    rkItems,       \* results["items"], the ids of the top artists
    rkIdx,         \* index of the item the for loop handles next
    rkScores,      \* recent_scores
    rkLooked       \* the latest recent_scores.get(artist_id, 0) of the
                   \* detector: the artist and the score

callVars == <<callPc, callAttempts, callSleeps, callLast, callResult>>

recVars == <<recPc, recRun, playlist, releases, recIdx, existing_track_ids,
             artist_existing_track, artist_existing_releases, added_releases,
             notified_artists, recAdds, recRemoves>>

swVars == <<swPc, swEntries, swInitial, swOffset, swRemovedCount>>

detVars == <<detPc, detNow, detArtists, detScores, detIdx, detReleases, detQueried,
             detSorted>>

afVars == <<afPc, afRun, afFile, afBefore, afLibrary, afLoaded, afData, afLiked,
            afOffset, afLookups>>

plVars == <<plPc, plRun, plConfigured, plPlaylists, plResult, plCreated>>

smsVars == <<smsPc, smsReleases, smsListed, smsMore, smsSent>>

rkVars == <<rkPc, rkItems, rkIdx, rkScores, rkLooked>>

vars == <<callVars, recVars, swVars, detVars, afVars, plVars, smsVars, rkVars>>

None == "None"

(***************************************************************************)
(* Helpers                                                                 *)
(***************************************************************************)
\* Sequences over S of length 0..n.
SeqsUpTo(S, n) == UNION {[1..k -> S] : k \in 0..n}

(***************************************************************************)
(* safe_spotify_call (script.py 58-76)                                     *)
(***************************************************************************)
\* Bound on the number of invocations of func the model follows.
MaxAttempts == 4

RateLimitStatus == 429
DefaultRetryAfter == 5
\* getattr(e, "http_status", None) when the exception carries no status.
NoStatus == 0

Digits == <<"0", "1", "2", "3", "4", "5", "6", "7", "8", "9">>

DigitValue(c) == (CHOOSE i \in 1..10 : Digits[i] = c) - 1

\* int(s) for a string of decimal digits s, given as a sequence of characters.
RECURSIVE ParseInt(_)
ParseInt(s) ==
    IF s = <<>> THEN 0
    ELSE 10 * ParseInt(SubSeq(s, 1, Len(s) - 1)) + DigitValue(s[Len(s)])

\* The values the Retry-After header takes in the runs followed.
RetryAfterValues == {<<"1">>, <<"2">>, <<"1", "0">>}

\* e.headers as safe_spotify_call sees it: the attribute may be missing
\* ("NoAttr": getattr falls back to {}), or it is a mapping with or without
\* a Retry-After entry.  A SpotifyException built without headers carries
\* the empty mapping, so the value is never None.
HeaderValues ==
    {[kind |-> "NoAttr"], [kind |-> "dict", has |-> FALSE]}
    \cup {[kind |-> "dict", has |-> TRUE, val |-> v] : v \in RetryAfterValues}

\* What one invocation func(*args, **kwargs) can do.
CallOutcomes ==
    {[kind |-> "ok", value |-> v] : v \in {"r1", "r2"}}
    \cup {[kind |-> "spotify", status |-> st, headers |-> h] :
             st \in {RateLimitStatus, 404, 500, NoStatus}, h \in HeaderValues}
    \cup {[kind |-> "other"]}

NoOutcome == [kind |-> "none"]

\* headers = getattr(e, "headers", {})
GetHeaders(o) ==
    IF o.headers.kind = "NoAttr" THEN [kind |-> "dict", has |-> FALSE]
    ELSE o.headers

\* A delay that ignores the Retry-After header.
RetryAfterDefaultOnly(h) == DefaultRetryAfter

\* int(headers.get("Retry-After", 5))
RetryAfter(h) == IF h.has THEN ParseInt(h.val) ELSE DefaultRetryAfter

\* A rate-limit test that ignores the status.
IsRateLimitedAnyStatus(o) == o.kind = "spotify"

\* if status == 429
IsRateLimited(o) == o.kind = "spotify" /\ o.status = RateLimitStatus

\* One iteration of the while True loop: invoke func and handle what it does.
CallAttempt ==
    /\ callPc = "attempt"
    /\ callAttempts < MaxAttempts
    /\ \E o \in CallOutcomes :
        /\ callAttempts' = callAttempts + 1
        /\ callLast' = o
        /\ IF o.kind = "ok"
           THEN /\ callPc' = "returned"
                /\ callResult' = o.value
                /\ callSleeps' = callSleeps
           ELSE IF IsRateLimited(o)
           THEN /\ callPc' = "attempt"
                /\ callResult' = callResult
                /\ callSleeps' = Append(callSleeps, RetryAfter(GetHeaders(o)))
           ELSE /\ callPc' = "raised"
                /\ callResult' = IF o.kind = "spotify" THEN "SpotifyException"
                                 ELSE "Exception"
                /\ callSleeps' = callSleeps
    /\ UNCHANGED <<recVars, swVars, detVars, afVars, plVars, smsVars, rkVars>>

CallInit ==
    /\ callPc = "attempt"
    /\ callAttempts = 0
    /\ callSleeps = <<>>
    /\ callLast = NoOutcome
    /\ callResult = None

CallIdle ==
    /\ callPc = "off"
    /\ callAttempts = 0
    /\ callSleeps = <<>>
    /\ callLast = NoOutcome
    /\ callResult = None

(***************************************************************************)
(* Names: strings as sequences of characters, str.lower and str.strip      *)
(***************************************************************************)
Whitespace == {" ", "\t"}

\* str.lower on one character of the alphabet the catalog uses.
LowerChar(c) ==
    CASE c = "A" -> "a"
      [] c = "B" -> "b"
      [] c = "X" -> "x"
      [] c = "Y" -> "y"
      [] OTHER -> c

Lower(s) == [i \in 1..Len(s) |-> LowerChar(s[i])]

RECURSIVE LStrip(_)
LStrip(s) ==
    IF s # <<>> /\ s[1] \in Whitespace THEN LStrip(Tail(s)) ELSE s

RECURSIVE RStrip(_)
RStrip(s) ==
    IF s # <<>> /\ s[Len(s)] \in Whitespace
    THEN RStrip(SubSeq(s, 1, Len(s) - 1)) ELSE s

\* str.strip
Strip(s) == LStrip(RStrip(s))

\* name.lower().strip()
Normalize(s) == Strip(Lower(s))

(***************************************************************************)
(* The catalog the reconciler runs against                                 *)
(***************************************************************************)
Artists == {"A", "B"}

TrackIds == {"t1", "t2", "t3", "t4", "t5", "t6"}

\* track id -> the track object playlist_tracks / album_tracks return.
\* t1, t2 and t3 are one musical work under three ids: t2 on an album whose
\* name normalizes to t1's, t3 on a differently named album.  t4 credits
\* two artists.
TrackInfo ==
    [t \in TrackIds |->
        CASE t = "t1" -> [name |-> <<"A", "b">>, album |-> <<"X">>,
                          artists |-> <<"A">>]
          [] t = "t2" -> [name |-> <<" ", "a", "b">>, album |-> <<"x", " ">>,
                          artists |-> <<"A">>]
          [] t = "t3" -> [name |-> <<"a", "B", " ">>, album |-> <<"Y">>,
                          artists |-> <<"A">>]
          [] t = "t4" -> [name |-> <<"c">>, album |-> <<"w">>,
                          artists |-> <<"A", "B">>]
          [] t = "t5" -> [name |-> <<"d">>, album |-> <<"v">>,
                          artists |-> <<"B">>]
          [] OTHER    -> [name |-> <<"e">>, album |-> <<"q">>,
                          artists |-> <<"A">>]]

\* A playlist item whose "track" is null (line 250).
NoTrack == "t0"

\* What an item of the playlist holds.
PlaylistEntries == TrackIds \cup {NoTrack}

AlbumIds == {"a1", "a2", "a3", "a4", "a5", "a6", "a7"}

\* album id -> the items of sp.album_tracks(album_id); a6 has none.
AlbumTracks ==
    [a \in AlbumIds |->
        CASE a = "a1" -> <<"t1">>
          [] a = "a2" -> <<"t2">>
          [] a = "a3" -> <<"t3">>
          [] a = "a4" -> <<"t4">>
          [] a = "a5" -> <<"t5">>
          [] a = "a6" -> <<>>
          [] OTHER    -> <<"t6">>]

AlbumName ==
    [a \in AlbumIds |->
        CASE a = "a1" -> <<"X">>
          [] a = "a2" -> <<"x", " ">>
          [] a = "a3" -> <<"Y">>
          [] a = "a4" -> <<"w">>
          [] a = "a5" -> <<"v">>
          [] a = "a6" -> <<"u">>
          [] OTHER    -> <<"q">>]

\* The release records check_new_releases can emit for this catalog
\* (the fields the reconciler reads).
CandidatePool ==
    {[album_id |-> al, artist_id |-> ar, name |-> AlbumName[al]] :
        <<ar, al>> \in {<<"A", "a1">>, <<"A", "a2">>, <<"A", "a3">>,
                        <<"A", "a4">>, <<"B", "a4">>, <<"B", "a5">>,
                        <<"B", "a6">>, <<"A", "a7">>}}

\* Bounds on the candidate list and on the initial playlist.
MaxCands == 2
MaxPlaylist == 2

NoDup(s) == \A i, j \in 1..Len(s) : s[i] = s[j] => i = j

PlaylistPageLimit == 100

(***************************************************************************)
(* add_new_releases_to_playlist (script.py 238-364)                        *)
(***************************************************************************)
Min(a, b) == IF a < b THEN a ELSE b

\* sp.playlist_tracks(playlist_id, limit, offset)["items"]
PlaylistPage(pl, limit, offset) == SubSeq(pl, offset + 1, Min(Len(pl), offset + limit))

\* sp.playlist_remove_all_occurrences_of_items(playlist_id, [tid])
RemoveAllOccurrences(pl, tids) == SelectSeq(pl, LAMBDA t : t \notin tids)

\* sp.playlist_add_items(playlist_id, [tid])
AddItems(pl, tid) == Append(pl, tid)

EmptySnapshot ==
    [ids |-> {},
     track |-> [a \in Artists |-> None],
     rels |-> [a \in Artists |-> <<>>]]

\* Lines 261-271 for the credited artists aids[1..] of one playlist track.
RECURSIVE SnapArtists(_, _, _)
SnapArtists(acc, tid, aids) ==
    IF aids = <<>> THEN acc
    ELSE LET aid == Head(aids)
             entry == [album_name |-> Normalize(TrackInfo[tid].album),
                       track_id |-> tid,
                       track_name |-> Normalize(TrackInfo[tid].name)]
             acc1 == [acc EXCEPT
                        !.track[aid] = IF @ = None THEN tid ELSE @,
                        !.rels[aid] = Append(@, entry)]
         IN SnapArtists(acc1, tid, Tail(aids))

\* Lines 248-271 for the items of one page; an item without a track is
\* passed over (lines 249-251).
RECURSIVE SnapItems(_, _)
SnapItems(acc, items) ==
    IF items = <<>> THEN acc
    ELSE IF Head(items) = NoTrack THEN SnapItems(acc, Tail(items))
    ELSE LET tid == Head(items)
             acc1 == [acc EXCEPT !.ids = @ \cup {tid}]
         IN SnapItems(SnapArtists(acc1, tid, TrackInfo[tid].artists), Tail(items))

\* The while loop of lines 244-274, from the page at offset.
RECURSIVE SnapshotFrom(_, _, _)
SnapshotFrom(pl, offset, acc) ==
    LET items == PlaylistPage(pl, PlaylistPageLimit, offset)
        acc1 == SnapItems(acc, items)
    IN IF Len(items) < PlaylistPageLimit THEN acc1
       ELSE SnapshotFrom(pl, offset + PlaylistPageLimit, acc1)

\* Duplicate check that also requires the album names to agree.
IsDuplicateSameAlbum(rels, track_name, album_name) ==
    \E i \in 1..Len(rels) :
        rels[i].track_name = track_name /\ rels[i].album_name = album_name

\* Lines 302-318: some recorded release of the artist has the candidate's
\* normalized track name (same album or not).
IsDuplicate(rels, track_name, album_name) ==
    \E i \in 1..Len(rels) : rels[i].track_name = track_name

\* A removal that leaves the in-memory set as it was.
DiscardNothing(ids, tid) == ids

\* Lines 332-333: existing_track_ids.discard(existing_track_id_by_artist)
Discard(ids, tid) == ids \ {tid}

\* Notification condition that looks only at whether the artist had an entry.
ShouldNotifyNewArtistOnly(existed, aid, notified) == ~existed

\* Line 344.
ShouldNotify(existed, aid, notified) == ~existed \/ aid \notin notified

RecSnapshot ==
    /\ recPc = "snapshot"
    /\ LET snap == SnapshotFrom(playlist, 0, EmptySnapshot) IN
        /\ existing_track_ids' = snap.ids
        /\ artist_existing_track' = snap.track
        /\ artist_existing_releases' = snap.rels
    /\ added_releases' = <<>>
    /\ notified_artists' = {}
    /\ recIdx' = 1
    /\ recPc' = "loop"
    /\ UNCHANGED <<recRun, playlist, releases, recAdds, recRemoves>>
    /\ UNCHANGED <<callVars, swVars, detVars, afVars, plVars, smsVars, rkVars>>

RecSkip ==
    /\ recIdx' = recIdx + 1
    /\ UNCHANGED <<recPc, recRun, playlist, releases, existing_track_ids,
                   artist_existing_track, artist_existing_releases,
                   added_releases, notified_artists, recAdds, recRemoves>>

\* One iteration of the for loop of lines 280-362.  Every candidate has an
\* album id and every album track an id (the catalog yields no others), so
\* of the guards of lines 282-290 only the empty album is followed.
RecCandidate ==
    /\ recPc = "loop"
    /\ recIdx <= Len(releases)
    /\ UNCHANGED <<callVars, swVars, detVars, afVars, plVars, smsVars, rkVars>>
    /\ LET r == releases[recIdx]
           album_items == AlbumTracks[r.album_id]
       IN
       IF album_items = <<>> THEN RecSkip
       ELSE
       LET first_track_id == album_items[1]
           current_album_name == Normalize(r.name)
           current_track_name == Normalize(TrackInfo[first_track_id].name)
           artist_id == r.artist_id
           existing == artist_existing_track[artist_id]
           artist_existed_in_playlist == existing # None
           supersede == existing # None /\ existing # first_track_id
           ids1 == IF supersede THEN Discard(existing_track_ids, existing)
                   ELSE existing_track_ids
           pl1 == IF supersede THEN RemoveAllOccurrences(playlist, {existing})
                  ELSE playlist
           rem1 == IF supersede
                   THEN Append(recRemoves, [artist_id |-> artist_id,
                                            track_id |-> existing,
                                            removed |-> Len(playlist) - Len(pl1)])
                   ELSE recRemoves
       IN
       IF first_track_id \in existing_track_ids THEN RecSkip
       ELSE IF IsDuplicate(artist_existing_releases[artist_id],
                           current_track_name, current_album_name)
       THEN RecSkip
       ELSE IF first_track_id \in ids1
       THEN /\ recIdx' = recIdx + 1
            /\ playlist' = pl1
            /\ existing_track_ids' = ids1
            /\ recRemoves' = rem1
            /\ UNCHANGED <<recPc, recRun, releases, artist_existing_track,
                           artist_existing_releases, added_releases,
                           notified_artists, recAdds>>
       ELSE /\ recIdx' = recIdx + 1
            /\ playlist' = AddItems(pl1, first_track_id)
            /\ recRemoves' = rem1
            /\ recAdds' = Append(recAdds, [release |-> r,
                                           artist_id |-> artist_id,
                                           track_id |-> first_track_id])
            /\ IF ShouldNotify(artist_existed_in_playlist, artist_id,
                               notified_artists)
               THEN /\ added_releases' = Append(added_releases, r)
                    /\ notified_artists' = notified_artists \cup {artist_id}
               ELSE UNCHANGED <<added_releases, notified_artists>>
            /\ existing_track_ids' = ids1 \cup {first_track_id}
            /\ artist_existing_track' =
                   [artist_existing_track EXCEPT ![artist_id] = first_track_id]
            /\ artist_existing_releases' =
                   [artist_existing_releases EXCEPT ![artist_id] =
                       Append(@, [album_name |-> current_album_name,
                                  track_id |-> first_track_id,
                                  track_name |-> current_track_name])]
            /\ UNCHANGED <<recPc, recRun, releases>>

\* return added_releases
RecReturn ==
    /\ recPc = "loop"
    /\ recIdx > Len(releases)
    /\ recPc' = "done"
    /\ UNCHANGED <<recRun, playlist, releases, recIdx, existing_track_ids,
                   artist_existing_track, artist_existing_releases,
                   added_releases, notified_artists, recAdds, recRemoves>>
    /\ UNCHANGED <<callVars, swVars, detVars, afVars, plVars, smsVars, rkVars>>

\* The reconciler is run again at once, with the same candidate list and
\* the playlist as the first run left it.
RecRunAgain ==
    /\ recPc = "done"
    /\ recRun = 1
    /\ recRun' = 2
    /\ recPc' = "snapshot"
    /\ recIdx' = 1
    /\ existing_track_ids' = {}
    /\ artist_existing_track' = [a \in Artists |-> None]
    /\ artist_existing_releases' = [a \in Artists |-> <<>>]
    /\ added_releases' = <<>>
    /\ notified_artists' = {}
    /\ recAdds' = <<>>
    /\ recRemoves' = <<>>
    /\ UNCHANGED <<playlist, releases>>
    /\ UNCHANGED <<callVars, swVars, detVars, afVars, plVars, smsVars, rkVars>>

RecLocalsInit ==
    /\ recRun = 1
    /\ recIdx = 1
    /\ existing_track_ids = {}
    /\ artist_existing_track = [a \in Artists |-> None]
    /\ artist_existing_releases = [a \in Artists |-> <<>>]
    /\ added_releases = <<>>
    /\ notified_artists = {}
    /\ recAdds = <<>>
    /\ recRemoves = <<>>

RecInit ==
    /\ recPc = "snapshot"
    /\ playlist \in SeqsUpTo(PlaylistEntries, MaxPlaylist)
    /\ releases \in {s \in SeqsUpTo(CandidatePool, MaxCands) : NoDup(s)}
    /\ RecLocalsInit

RecIdle ==
    /\ recPc = "off"
    /\ playlist = <<>>
    /\ releases = <<>>
    /\ RecLocalsInit

(***************************************************************************)
(* remove_old_tracks_from_playlist (script.py 366-394)                     *)
(***************************************************************************)
RetentionDays == 10
HoursPerDay == 24

\* now = datetime.datetime.utcnow(), as day and hour.
SweepNow == [d |-> 20, h |-> 12]

\* datetime.strptime(added_at, "%Y-%m-%dT%H:%M:%SZ"), in hours.
ParseTime(t) == t.d * HoursPerDay + t.h

\* (now - added_dt).days: whole days, rounded down.
DeltaDays(now, added_at) == (ParseTime(now) - ParseTime(added_at)) \div HoursPerDay

\* Lines 377-384: the entry is put on tracks_to_remove.
IsExpired(e, days) ==
    e.stamped /\ DeltaDays(SweepNow, e.added_at) > days

\* The added_at values an entry can carry: added this hour, 9 days ago,
\* 10 days and 10 hours ago, 12 days ago.
AddedAtChoices ==
    {[d |-> 20, h |-> 12], [d |-> 11, h |-> 12], [d |-> 10, h |-> 2],
     [d |-> 8, h |-> 12]}

\* Playlist lengths followed: short ones and ones around the page limit.
SweepSizes == {0, 1, 2, 100, 101, 102}

\* The positions whose added_at varies; the others were added this hour.
SweepHot == {1, 2, 100, 101}

\* The playlists the sweep starts from: entries with distinct uris.
SweepPlaylists ==
    UNION {
      {[i \in 1..n |->
          [uri |-> i, stamped |-> (i # 2 \/ st),
           added_at |-> IF i \in SweepHot THEN f[i] ELSE SweepNow]] :
         f \in [SweepHot -> AddedAtChoices], st \in BOOLEAN}
      : n \in SweepSizes}

\* sp.playlist_remove_all_occurrences_of_items(playlist_id, uris)
RemoveUris(entries, uris) == SelectSeq(entries, LAMBDA e : e.uri \notin uris)

\* One iteration of the while loop of lines 370-390.
SweepPage ==
    /\ swPc = "page"
    /\ LET items == PlaylistPage(swEntries, PlaylistPageLimit, swOffset)
           tracks_to_remove ==
               {items[i].uri : i \in {k \in 1..Len(items) :
                                         IsExpired(items[k], RetentionDays)}}
           n_remove == Cardinality({k \in 1..Len(items) :
                                       IsExpired(items[k], RetentionDays)})
       IN
       IF items = <<>>
       THEN /\ swPc' = "done"
            /\ UNCHANGED <<swEntries, swOffset, swRemovedCount>>
       ELSE /\ swEntries' = RemoveUris(swEntries, tracks_to_remove)
            /\ swRemovedCount' = swRemovedCount + n_remove
            /\ IF Len(items) < PlaylistPageLimit
               THEN swPc' = "done" /\ swOffset' = swOffset
               ELSE swPc' = "page" /\ swOffset' = swOffset + PlaylistPageLimit
    /\ UNCHANGED swInitial
    /\ UNCHANGED <<callVars, recVars, detVars, afVars, plVars, smsVars, rkVars>>

SweepInit ==
    /\ swPc = "page"
    /\ swEntries \in SweepPlaylists
    /\ swInitial = swEntries
    /\ swOffset = 0
    /\ swRemovedCount = 0

SweepIdle ==
    /\ swPc = "off"
    /\ swEntries = <<>>
    /\ swInitial = <<>>
    /\ swOffset = 0
    /\ swRemovedCount = 0

(***************************************************************************)
(* parse_release_date and check_new_releases (script.py 47-56, 178-220)    *)
(***************************************************************************)
\* A release_date string is given by its fields: <<y>> for "YYYY",
\* <<y, m>> for "YYYY-MM", <<y, m, d>> for "YYYY-MM-DD", <<>> for "".
DateStrLen(s) == IF s = <<>> THEN 0 ELSE 4 + 3 * (Len(s) - 1)

\* A date as a day number, counted from the year 2000, that orders dates
\* as the calendar does.
DayNumber(y, m, d) == ((y - 2000) * 12 + (m - 1)) * 31 + (d - 1)

SecondsPerDay == 86400

\* A datetime, in seconds: the date and the seconds since its midnight.
DateTime(y, m, d, secs) == DayNumber(y, m, d) * SecondsPerDay + secs

NoDate == -1

\* parse_release_date: midnight of the date (strptime sets no time of
\* day), or NoDate for None.
parse_release_date(s) ==
    IF DateStrLen(s) = 4 THEN DateTime(s[1], 1, 1, 0)
    ELSE IF DateStrLen(s) = 7 THEN DateTime(s[1], s[2], 1, 0)
    ELSE IF Len(s) = 3 THEN DateTime(s[1], s[2], s[3], 0)
    ELSE NoDate

RecencyDays == 7

\* The values of datetime.datetime.now() followed: 15 June 2024 at
\* midnight, one second later, and at noon.
DetClocks == {DateTime(2024, 6, 15, secs) : secs \in {0, 1, 43200}}

\* Line 180: now minus timedelta(days=7), the time of day kept.
seven_days_ago == detNow - RecencyDays * SecondsPerDay

LikedThreshold == 1
SingleMaxTracks == 3
EpMaxTracks == 6

DetArtistIds == {"A", "B", "C"}

\* artist id -> the items of sp.artist_albums(artist_id, ...), in catalog
\* order.  Every artist has a release inside the window; a3 was released
\* seven days before today, so it is inside the window at midnight only.
DetAlbums ==
    [a \in DetArtistIds |->
        CASE a = "A" ->
               <<[id |-> "a1", name |-> "a1", total_tracks |-> 1,
                  release_date |-> <<2024, 6, 14>>],
                 [id |-> "a2", name |-> "a2", total_tracks |-> 5,
                  release_date |-> <<2024, 5, 30>>],
                 [id |-> "a3", name |-> "a3", total_tracks |-> 8,
                  release_date |-> <<2024, 6, 8>>]>>
          [] a = "B" ->
               <<[id |-> "b1", name |-> "b1", total_tracks |-> 0,
                  release_date |-> <<2024, 6, 14>>],
                 [id |-> "b2", name |-> "b2", total_tracks |-> 3,
                  release_date |-> <<2024, 6, 10>>],
                 [id |-> "b3", name |-> "b3", total_tracks |-> 2,
                  release_date |-> <<2024, 6>>]>>
          [] OTHER ->
               <<[id |-> "c1", name |-> "c1", total_tracks |-> 4,
                  release_date |-> <<2024, 6, 12>>],
                 [id |-> "c2", name |-> "c2", total_tracks |-> 7,
                  release_date |-> <<>>],
                 [id |-> "c3", name |-> "c3", total_tracks |-> 2,
                  release_date |-> <<2024>>]>>]

\* Bound on liked_count, and the values of recent_artist_plays and of the
\* recency ranks the artists handed to the detector carry.
MaxLiked == 3
PlayCounts == {0, 2}
RecentScores == {0, 1}

\* Line 182, with liked the value of artist_info.get("liked_count", 0).
BelowThresholdStrict(liked) == liked < LikedThreshold

BelowThreshold(liked) == liked <= LikedThreshold

\* Lines 195-200.
ReleaseType(track_count) ==
    IF track_count <= SingleMaxTracks THEN "single"
    ELSE IF track_count <= EpMaxTracks THEN "ep"
    ELSE "album"

\* Lines 189-194: the album is skipped.
AlbumSkipped(album) ==
    \/ album.total_tracks = 0
    \/ parse_release_date(album.release_date) = NoDate
    \/ parse_release_date(album.release_date) < seven_days_ago

\* Lines 201-211.
ReleaseRecord(artist, album, scores) ==
    [name |-> album.name,
     artist |-> artist.name,
     artist_id |-> artist.artist_id,
     type |-> ReleaseType(album.total_tracks),
     album_id |-> album.id,
     liked_count |-> artist.liked_count,
     recent_score |-> IF artist.artist_id \in DOMAIN scores
                      THEN scores[artist.artist_id] ELSE 0,
     recent_artist_plays |-> artist.recent_artist_plays,
     release_date |-> album.release_date]

\* The loop of lines 188-211 over the albums of one artist.
RECURSIVE AppendAlbums(_, _, _, _)
AppendAlbums(acc, artist, albums, scores) ==
    IF albums = <<>> THEN acc
    ELSE AppendAlbums(
            IF AlbumSkipped(Head(albums)) THEN acc
            ELSE Append(acc, ReleaseRecord(artist, Head(albums), scores)),
            artist, Tail(albums), scores)

\* Line 214: the sort key.
SortKey(r) == r.liked_count + r.recent_score + r.recent_artist_plays

\* Insertion that puts r before the entries with an equal key.
InsertBeforeEqual(sorted, r) ==
    LET before == SelectSeq(sorted, LAMBDA x : SortKey(x) > SortKey(r))
        after == SelectSeq(sorted, LAMBDA x : SortKey(x) <= SortKey(r))
    IN before \o <<r>> \o after

\* One insertion of the stable descending sort: r goes after every entry
\* whose key is at least r's.
InsertDescending(sorted, r) ==
    LET before == SelectSeq(sorted, LAMBDA x : SortKey(x) >= SortKey(r))
        after == SelectSeq(sorted, LAMBDA x : SortKey(x) < SortKey(r))
    IN before \o <<r>> \o after

\* sorted(releases, key=..., reverse=True): stable, descending.
RECURSIVE SortDescending(_, _)
SortDescending(acc, rs) ==
    IF rs = <<>> THEN acc
    ELSE SortDescending(InsertDescending(acc, Head(rs)), Tail(rs))

\* One iteration of the for loop of lines 181-211.
DetArtist ==
    /\ detPc = "loop"
    /\ detIdx <= Len(detArtists)
    /\ LET artist == detArtists[detIdx] IN
       IF BelowThreshold(artist.liked_count)
       THEN UNCHANGED <<detReleases, detQueried>>
       ELSE /\ detQueried' = Append(detQueried, artist.artist_id)
            /\ detReleases' = AppendAlbums(detReleases, artist,
                                           DetAlbums[artist.artist_id], detScores)
    /\ detIdx' = detIdx + 1
    /\ UNCHANGED <<detPc, detNow, detArtists, detScores, detSorted>>
    /\ UNCHANGED <<callVars, recVars, swVars, afVars, plVars, smsVars, rkVars>>

\* Lines 212-220: sort, write the snapshot, return.
DetSort ==
    /\ detPc = "loop"
    /\ detIdx > Len(detArtists)
    /\ detSorted' = SortDescending(<<>>, detReleases)
    /\ detPc' = "done"
    /\ UNCHANGED <<detNow, detArtists, detScores, detIdx, detReleases,
                   detQueried>>
    /\ UNCHANGED <<callVars, recVars, swVars, afVars, plVars, smsVars, rkVars>>

\* The artist records of the affinity file, in any iteration order.
DetArtistLists ==
    {s \in [1..Cardinality(DetArtistIds) ->
              [artist_id : DetArtistIds, name : {"n"},
               liked_count : 0..MaxLiked, recent_artist_plays : PlayCounts]] :
        \A i, j \in DOMAIN s : s[i].artist_id = s[j].artist_id => i = j}

DetInit ==
    /\ detPc = "loop"
    /\ detNow \in DetClocks
    /\ detArtists \in DetArtistLists
    /\ \E top \in SUBSET DetArtistIds :
          detScores \in [top -> RecentScores]
    /\ detIdx = 1
    /\ detReleases = <<>>
    /\ detQueried = <<>>
    /\ detSorted = <<>>

DetIdle ==
    /\ detPc = "off"
    /\ detNow = 0
    /\ detArtists = <<>>
    /\ detScores = <<>>
    /\ detIdx = 1
    /\ detReleases = <<>>
    /\ detQueried = <<>>
    /\ detSorted = <<>>

(***************************************************************************)
(* update_artists_file (script.py 99-165)                                  *)
(***************************************************************************)
SavedTracksLimit == 50

\* Bounds: the saved tracks that vary in a library (a library may also
\* hold a full page of further tracks), and the runs followed.
MaxLibrary == 2
MaxRuns == 2

AfArtistIds == {"A", "B", "P"}

\* An artist object without an id (a local file's artist).
NoId == "NoId"

ArtistObj(id) == [id |-> id, name |-> id]

\* The saved-track items that vary: a missing track object, a track by one
\* artist, a track by two, a track one of whose artists has no id.
TrackShapes ==
    {[has_track |-> FALSE, artists |-> <<>>],
     [has_track |-> TRUE, artists |-> <<ArtistObj("A")>>],
     [has_track |-> TRUE, artists |-> <<ArtistObj("A"), ArtistObj("B")>>],
     [has_track |-> TRUE, artists |-> <<ArtistObj("B"), ArtistObj(NoId)>>]}

\* n saved tracks by artist P.
Padding(n) == [i \in 1..n |-> [has_track |-> TRUE, artists |-> <<ArtistObj("P")>>]]

\* The libraries followed: up to MaxLibrary varying tracks, or a full page
\* of tracks by P followed by fewer than MaxLibrary varying tracks.
Libraries ==
    SeqsUpTo(TrackShapes, MaxLibrary)
    \cup {Padding(SavedTracksLimit) \o s :
              s \in SeqsUpTo(TrackShapes, MaxLibrary - 1)}

\* The values the external play-count lookup returns.
PlayCountValues == {0, 7}

EmptyMap == [x \in {} |-> 0]

\* The contents json.load cannot parse: a damaged file, the empty file
\* open(..., "w") leaves, and the beginning of a document.
Unparsable == {"corrupt", "empty", "partial"}

\* The durable states a first run can start from.
InitialFiles ==
    {[kind |-> "missing", artists |-> EmptyMap],
     [kind |-> "corrupt", artists |-> EmptyMap],
     [kind |-> "nokey", artists |-> EmptyMap],
     [kind |-> "ok", artists |-> EmptyMap],
     [kind |-> "ok", artists |->
        [a \in {"A", "P"} |->
            [name |-> a, liked_count |-> 1, recent_artist_plays |-> 7]]]}

\* sp.current_user_saved_tracks(limit, offset)["items"]
SavedTracksPage(lib, limit, offset) ==
    SubSeq(lib, offset + 1, Min(Len(lib), offset + limit))

\* Line 136: a page shorter than the limit is the last one.
LastPageAlways(items, limit) == TRUE

LastPage(items, limit) == Len(items) < limit

\* The places <<item, artist>> of a page where an artist object with id a
\* is visited by the loops of lines 124-135 (items without a track object
\* are skipped by line 127).
Visits(items, a) ==
    UNION {{<<i, k>> : k \in {k \in 1..Len(items[i].artists) :
                                 items[i].artists[k].id = a}} :
           i \in {i \in 1..Len(items) : items[i].has_track}}

\* The first of these places, in the order the loops visit them.
FirstVisit(items, a) ==
    CHOOSE v \in Visits(items, a) :
        \A w \in Visits(items, a) :
            v[1] < w[1] \/ (v[1] = w[1] /\ v[2] <= w[2])

\* The ids with a truthy artist_id seen on a page (line 132).
IdsOn(items) ==
    {a \in AfArtistIds : Visits(items, a) # {}}

\* Lines 124-135 for the items of one page: setdefault enters an artist
\* with the name of its first visit and count 0, and every visit adds 1.
CountItems(liked, items) ==
    [a \in DOMAIN liked \cup IdsOn(items) |->
        IF a \in DOMAIN liked
        THEN [liked[a] EXCEPT !.count = @ + Cardinality(Visits(items, a))]
        ELSE [name |-> items[FirstVisit(items, a)[1]]
                          .artists[FirstVisit(items, a)[2]].name,
              count |-> Cardinality(Visits(items, a))]]

\* A merge that rebuilds the record of a known artist without its cached
\* play count.
MergeCountsRebuilding(data, liked, plays) ==
    [a \in DOMAIN data \cup DOMAIN liked |->
        IF a \notin DOMAIN liked THEN data[a]
        ELSE [name |-> liked[a].name,
              liked_count |-> liked[a].count,
              recent_artist_plays |->
                  IF a \in DOMAIN data THEN 0 ELSE plays[a]]]

\* Lines 141-152: liked_counts merged into data["artists"]; plays gives
\* what fetch_lastfm_play_counts returns for each artist not yet known.
MergeCounts(data, liked, plays) ==
    [a \in DOMAIN data \cup DOMAIN liked |->
        IF a \notin DOMAIN liked THEN data[a]
        ELSE IF a \in DOMAIN data
        THEN [data[a] EXCEPT !.name = liked[a].name,
                             !.liked_count = liked[a].count]
        ELSE [name |-> liked[a].name,
              liked_count |-> liked[a].count,
              recent_artist_plays |-> plays[a]]]

\* A removal step that drops nothing.
KeepAll(data, existing_ids) == data

\* Lines 154-159: the artists absent from the scan are dropped.
PruneAbsent(data, existing_ids) ==
    [a \in DOMAIN data \cap existing_ids |-> data[a]]

\* Lines 105-111: a missing file and a document without the "artists" key
\* give the empty mapping; json.load raises on a file it cannot parse, and
\* nothing catches it.
LoadRaises(file) == file.kind \in Unparsable

LoadedArtists(file) ==
    IF file.kind = "ok" THEN file.artists ELSE EmptyMap

AfLoad ==
    /\ afPc = "load"
    /\ IF LoadRaises(afFile)
       THEN /\ afPc' = "aborted"
            /\ UNCHANGED <<afData, afLoaded>>
       ELSE /\ afPc' = "scan"
            /\ afData' = LoadedArtists(afFile)
            /\ afLoaded' = afData'
    /\ afOffset' = 0
    /\ afLiked' = EmptyMap
    /\ afLookups' = {}
    /\ UNCHANGED <<afRun, afFile, afBefore, afLibrary>>
    /\ UNCHANGED <<callVars, recVars, swVars, detVars, plVars, smsVars, rkVars>>

\* One iteration of the while loop of lines 119-138.
AfScanPage ==
    /\ afPc = "scan"
    /\ LET items == SavedTracksPage(afLibrary, SavedTracksLimit, afOffset) IN
       IF items = <<>>
       THEN /\ afPc' = "merge"
            /\ UNCHANGED <<afLiked, afOffset>>
       ELSE /\ afLiked' = CountItems(afLiked, items)
            /\ IF LastPage(items, SavedTracksLimit)
               THEN afPc' = "merge" /\ afOffset' = afOffset
               ELSE afPc' = "scan" /\ afOffset' = afOffset + SavedTracksLimit
    /\ UNCHANGED <<afRun, afFile, afBefore, afLibrary, afLoaded, afData,
                   afLookups>>
    /\ UNCHANGED <<callVars, recVars, swVars, detVars, plVars, smsVars, rkVars>>

\* Lines 140-159: merge the counts, look up the new artists, drop the
\* absent ones.
AfMerge ==
    /\ afPc = "merge"
    /\ LET new == DOMAIN afLiked \ DOMAIN afData IN
       \E plays \in [new -> PlayCountValues] :
          /\ afData' = PruneAbsent(MergeCounts(afData, afLiked, plays),
                                   DOMAIN afLiked)
          /\ afLookups' = new
    /\ afPc' = "save"
    /\ UNCHANGED <<afRun, afFile, afBefore, afLibrary, afLoaded, afLiked,
                   afOffset>>
    /\ UNCHANGED <<callVars, recVars, swVars, detVars, plVars, smsVars, rkVars>>

\* Line 161: open(ARTISTS_FILE, "w") creates the file or truncates the
\* one that is there.
OpenForWriting(file) == [kind |-> "empty", artists |-> EmptyMap]

\* Line 162 and the end of the with block: the whole document is in the
\* file once it is closed.
Dumped(data) == [kind |-> "ok", artists |-> data]

\* What a run that ends during json.dump leaves: nothing of the document
\* or its beginning, according to how much was flushed.
Interrupted(file) == {file, [kind |-> "partial", artists |-> EmptyMap]}

AfOpen ==
    /\ afPc = "save"
    /\ afFile' = OpenForWriting(afFile)
    /\ afPc' = "dump"
    /\ UNCHANGED <<afRun, afBefore, afLibrary, afLoaded, afData, afLiked,
                   afOffset, afLookups>>
    /\ UNCHANGED <<callVars, recVars, swVars, detVars, plVars, smsVars, rkVars>>

\* Lines 162-165: the document is written, the file closed and data
\* returned.
AfDump ==
    /\ afPc = "dump"
    /\ afFile' = Dumped(afData)
    /\ afPc' = "done"
    /\ UNCHANGED <<afRun, afBefore, afLibrary, afLoaded, afData, afLiked,
                   afOffset, afLookups>>
    /\ UNCHANGED <<callVars, recVars, swVars, detVars, plVars, smsVars, rkVars>>

\* Line 120: safe_spotify_call re-raises a failure of
\* sp.current_user_saved_tracks (lines 75-76) and nothing catches it: the
\* run ends with the counts of the pages read so far.
AfScanFail ==
    /\ afPc = "scan"
    /\ afPc' = "failed"
    /\ UNCHANGED <<afRun, afFile, afBefore, afLibrary, afLoaded, afData,
                   afLiked, afOffset, afLookups>>
    /\ UNCHANGED <<callVars, recVars, swVars, detVars, plVars, smsVars, rkVars>>

\* The process is stopped.  Only a run that has opened the file has
\* touched it; what the run held in memory is gone.
AfCrash ==
    /\ afPc \in {"scan", "merge", "save", "dump"}
    /\ afFile' \in IF afPc = "dump" THEN Interrupted(afFile) ELSE {afFile}
    /\ afPc' = "crashed"
    /\ afLoaded' = EmptyMap
    /\ afData' = EmptyMap
    /\ afLiked' = EmptyMap
    /\ afOffset' = 0
    /\ afLookups' = {}
    /\ UNCHANGED <<afRun, afBefore, afLibrary>>
    /\ UNCHANGED <<callVars, recVars, swVars, detVars, plVars, smsVars, rkVars>>

\* The script is run again later, the library having changed meanwhile:
\* of the previous run only the file is left.
AfNextRun ==
    /\ afPc \in {"done", "failed", "crashed"}
    /\ afRun < MaxRuns
    /\ afRun' = afRun + 1
    /\ afLibrary' \in Libraries
    /\ afBefore' = afFile
    /\ afPc' = "load"
    /\ afLoaded' = EmptyMap
    /\ afData' = EmptyMap
    /\ afLiked' = EmptyMap
    /\ afOffset' = 0
    /\ afLookups' = {}
    /\ UNCHANGED afFile
    /\ UNCHANGED <<callVars, recVars, swVars, detVars, plVars, smsVars, rkVars>>

AfInit ==
    /\ afPc = "load"
    /\ afRun = 1
    /\ afFile \in InitialFiles
    /\ afBefore = afFile
    /\ afLibrary \in Libraries
    /\ afLoaded = EmptyMap
    /\ afData = EmptyMap
    /\ afLiked = EmptyMap
    /\ afOffset = 0
    /\ afLookups = {}

AfIdle ==
    /\ afPc = "off"
    /\ afRun = 1
    /\ afFile = [kind |-> "missing", artists |-> EmptyMap]
    /\ afBefore = afFile
    /\ afLibrary = <<>>
    /\ afLoaded = EmptyMap
    /\ afData = EmptyMap
    /\ afLiked = EmptyMap
    /\ afOffset = 0
    /\ afLookups = {}

(***************************************************************************)
(* get_or_create_playlist (script.py 223-236)                              *)
(***************************************************************************)
PLAYLIST_NAME == "Enhanced Releases"

UserPlaylistsLimit == 50

\* Bounds: the playlists that vary in a listener's list (after a run of
\* playlists with another name), and the runs followed.
MaxListed == 2
MaxResolves == 2

\* The names that vary: the fixed name, and one that differs from it by
\* case only.
ListedNames == {PLAYLIST_NAME, "enhanced releases"}

\* n playlists with another name.
OtherPlaylists(n) == [i \in 1..n |-> "Other"]

\* The lists of playlists followed: up to MaxListed varying playlists, alone
\* or after one playlist fewer than a page or after a full page of others.
UserPlaylists ==
    {OtherPlaylists(n) \o s :
        n \in {0, UserPlaylistsLimit - 1, UserPlaylistsLimit},
        s \in SeqsUpTo(ListedNames, MaxListed)}

NoPlaylist == [kind |-> "none", index |-> 0]

\* sp.current_user_playlists(limit=50)["items"]
UserPlaylistsPage(pls, limit) == SubSeq(pls, 1, Min(Len(pls), limit))

\* Lines 231-233: the position of the first item whose name equals name,
\* 0 when the loop ends without one.
FirstNamed(items, name) ==
    LET hits == {i \in 1..Len(items) : items[i] = name} IN
    IF hits = {} THEN 0 ELSE CHOOSE i \in hits : \A j \in hits : i <= j

\* Lines 224-229: with PLAYLIST_ID set the playlist is fetched by id; a
\* failure of that call is caught and the lookup by name follows.
PlById ==
    /\ plPc = "id"
    /\ IF plConfigured = "reachable"
       THEN /\ plResult' = [kind |-> "fixed", index |-> 0]
            /\ plPc' = "done"
       ELSE /\ plResult' = plResult
            /\ plPc' = "name"
    /\ UNCHANGED <<plRun, plConfigured, plPlaylists, plCreated>>
    /\ UNCHANGED <<callVars, recVars, swVars, detVars, afVars, smsVars, rkVars>>

\* Lines 230-233: one page of the listener's playlists is searched for the
\* name.
PlByName ==
    /\ plPc = "name"
    /\ LET items == UserPlaylistsPage(plPlaylists, UserPlaylistsLimit)
           i == FirstNamed(items, PLAYLIST_NAME)
       IN IF i # 0
          THEN /\ plResult' = [kind |-> "listed", index |-> i]
               /\ plPc' = "done"
          ELSE /\ plResult' = plResult
               /\ plPc' = "create"
    /\ UNCHANGED <<plRun, plConfigured, plPlaylists, plCreated>>
    /\ UNCHANGED <<callVars, recVars, swVars, detVars, afVars, smsVars, rkVars>>

\* Lines 234-236: a playlist with the fixed name is created; the service
\* lists it first or last among the listener's playlists.
PlCreate ==
    /\ plPc = "create"
    /\ \E first \in BOOLEAN :
          IF first
          THEN /\ plPlaylists' = <<PLAYLIST_NAME>> \o plPlaylists
               /\ plResult' = [kind |-> "created", index |-> 1]
          ELSE /\ plPlaylists' = Append(plPlaylists, PLAYLIST_NAME)
               /\ plResult' = [kind |-> "created",
                               index |-> Len(plPlaylists) + 1]
    /\ plCreated' = plCreated + 1
    /\ plPc' = "done"
    /\ UNCHANGED <<plRun, plConfigured>>
    /\ UNCHANGED <<callVars, recVars, swVars, detVars, afVars, smsVars, rkVars>>

\* The script is run again later.
PlRunAgain ==
    /\ plPc = "done"
    /\ plRun < MaxResolves
    /\ plRun' = plRun + 1
    /\ plResult' = NoPlaylist
    /\ plPc' = "id"
    /\ UNCHANGED <<plConfigured, plPlaylists, plCreated>>
    /\ UNCHANGED <<callVars, recVars, swVars, detVars, afVars, smsVars, rkVars>>

PlInit ==
    /\ plPc = "id"
    /\ plRun = 1
    /\ plConfigured \in {"unset", "reachable", "unreachable"}
    /\ plPlaylists \in UserPlaylists
    /\ plResult = NoPlaylist
    /\ plCreated = 0

PlIdle ==
    /\ plPc = "off"
    /\ plRun = 1
    /\ plConfigured = "unset"
    /\ plPlaylists = <<>>
    /\ plResult = NoPlaylist
    /\ plCreated = 0

(***************************************************************************)
(* fetch_recent_listening_scores (script.py 168-175) and the lookup of     *)
(* check_new_releases (line 208)                                           *)
(***************************************************************************)
\* Bound on the number of artists the top-artists query returns.
MaxTop == 3

RkArtistIds == {"A", "B", "C", "D"}

\* The answers of sp.current_user_top_artists: up to MaxTop artists, each
\* once, most played first.
TopArtistLists == {s \in SeqsUpTo(RkArtistIds, MaxTop) : NoDup(s)}

Max(a, b) == IF a > b THEN a ELSE b

\* Line 172.
MaxRank(n) == Max(0, n - 1)

\* A score that grows with the position.
ScoreAscending(max_rank, rank) == rank

\* Line 174: the score of the item enumerate numbers rank.
ScoreAt(max_rank, rank) == max_rank - rank

\* recent_scores.get(artist_id, 0)
GetScore(scores, artist_id) ==
    IF artist_id \in DOMAIN scores THEN scores[artist_id] ELSE 0

\* One iteration of the for loop of lines 173-174; enumerate counts from 0.
RkAssign ==
    /\ rkPc = "loop"
    /\ rkIdx <= Len(rkItems)
    /\ LET id == rkItems[rkIdx]
           score == ScoreAt(MaxRank(Len(rkItems)), rkIdx - 1)
       IN rkScores' = [a \in DOMAIN rkScores \cup {id} |->
                          IF a = id THEN score ELSE rkScores[a]]
    /\ rkIdx' = rkIdx + 1
    /\ UNCHANGED <<rkPc, rkItems, rkLooked>>
    /\ UNCHANGED <<callVars, recVars, swVars, detVars, afVars, plVars, smsVars>>

\* Line 175: return recent_scores
RkReturn ==
    /\ rkPc = "loop"
    /\ rkIdx > Len(rkItems)
    /\ rkPc' = "done"
    /\ UNCHANGED <<rkItems, rkIdx, rkScores, rkLooked>>
    /\ UNCHANGED <<callVars, recVars, swVars, detVars, afVars, plVars, smsVars>>

\* Line 208: the detector reads the score of an artist.
RkLookup ==
    /\ rkPc = "done"
    /\ \E a \in RkArtistIds :
          rkLooked' = [artist_id |-> a, score |-> GetScore(rkScores, a)]
    /\ UNCHANGED <<rkPc, rkItems, rkIdx, rkScores>>
    /\ UNCHANGED <<callVars, recVars, swVars, detVars, afVars, plVars, smsVars>>

NotLooked == [artist_id |-> None, score |-> 0]

RkLocalsInit ==
    /\ rkIdx = 1
    /\ rkScores = EmptyMap
    /\ rkLooked = NotLooked

RkInit ==
    /\ rkPc = "loop"
    /\ rkItems \in TopArtistLists
    /\ RkLocalsInit

RkIdle ==
    /\ rkPc = "off"
    /\ rkItems = <<>>
    /\ RkLocalsInit

(***************************************************************************)
(* send_sms (script.py 397-440)                                            *)
(***************************************************************************)
\* Line 421: ranked_releases[:5]
DigestTop == 5

\* Bound on the number of releases added in a run.
MaxAdded == 6

\* The affinity values of the releases that reach send_sms: every release
\* check_new_releases emits has a liked_count above the threshold.
DigestKinds ==
    {[liked_count |-> 2, recent_score |-> 0, recent_artist_plays |-> 0],
     [liked_count |-> 2, recent_score |-> 3, recent_artist_plays |-> 2],
     [liked_count |-> 3, recent_score |-> 0, recent_artist_plays |-> 0],
     [liked_count |-> 3, recent_score |-> 1, recent_artist_plays |-> 0]}

\* The lists of added releases followed; a release is named by its place
\* in the list.
AddedLists ==
    {[i \in 1..Len(k) |->
         [name |-> i,
          liked_count |-> k[i].liked_count,
          recent_score |-> k[i].recent_score,
          recent_artist_plays |-> k[i].recent_artist_plays]] :
     k \in SeqsUpTo(DigestKinds, MaxAdded)}

\* Line 403.
FilterLiked(rs) == SelectSeq(rs, LAMBDA r : r.liked_count > LikedThreshold)

\* An order on the sum of the three values.
KeyGreaterBySum(x, y) ==
    x.liked_count + x.recent_score + x.recent_artist_plays
        > y.liked_count + y.recent_score + y.recent_artist_plays

\* Lines 410-413: the key of x is greater than the key of y, the keys being
\* the pairs (liked_count, recent_score + recent_artist_plays).
KeyGreater(x, y) ==
    \/ x.liked_count > y.liked_count
    \/ /\ x.liked_count = y.liked_count
       /\ x.recent_score + x.recent_artist_plays
              > y.recent_score + y.recent_artist_plays

\* The place sorted(..., reverse=True) gives to rs[i]: after the items
\* with a greater key and after the earlier items with an equal key.
RankedPlace(rs, i) ==
    1 + Cardinality({j \in 1..Len(rs) :
                        \/ KeyGreater(rs[j], rs[i])
                        \/ /\ ~KeyGreater(rs[i], rs[j])
                           /\ j < i})

\* Lines 408-415.
Ranked(rs) ==
    [p \in 1..Len(rs) |->
        rs[CHOOSE i \in 1..Len(rs) : RankedPlace(rs, i) = p]]

\* Lines 398-440: nothing for an empty list; otherwise the lines of the
\* first DigestTop ranked releases and, beyond them, the count of the rest.
SmsSend ==
    /\ smsPc = "start"
    /\ IF smsReleases = <<>>
       THEN UNCHANGED <<smsListed, smsMore, smsSent>>
       ELSE LET ranked_releases == Ranked(FilterLiked(smsReleases)) IN
            /\ smsListed' = SubSeq(ranked_releases, 1,
                                   Min(DigestTop, Len(ranked_releases)))
            /\ smsMore' = IF Len(ranked_releases) > DigestTop
                          THEN Len(ranked_releases) - DigestTop
                          ELSE 0
            /\ smsSent' = TRUE
    /\ smsPc' = "done"
    /\ UNCHANGED smsReleases
    /\ UNCHANGED <<callVars, recVars, swVars, detVars, afVars, plVars, rkVars>>

SmsLocalsInit ==
    /\ smsListed = <<>>
    /\ smsMore = 0
    /\ smsSent = FALSE

SmsInit ==
    /\ smsPc = "start"
    /\ smsReleases \in AddedLists
    /\ SmsLocalsInit

SmsIdle ==
    /\ smsPc = "off"
    /\ smsReleases = <<>>
    /\ SmsLocalsInit

(***************************************************************************)
(* Specifications                                                          *)
(***************************************************************************)
InitCall ==
    CallInit /\ RecIdle /\ SweepIdle /\ DetIdle /\ AfIdle
    /\ PlIdle /\ SmsIdle /\ RkIdle
NextCall == CallAttempt
SpecCall == InitCall /\ [][NextCall]_vars

\* The while True loop goes on to its next iteration once time.sleep has
\* returned: an attempt that is due is eventually made.
SpecCallFair == SpecCall /\ WF_vars(CallAttempt)

InitReconcile ==
    RecInit /\ CallIdle /\ SweepIdle /\ DetIdle /\ AfIdle
    /\ PlIdle /\ SmsIdle /\ RkIdle
NextReconcile == RecSnapshot \/ RecCandidate \/ RecReturn \/ RecRunAgain
SpecReconcile == InitReconcile /\ [][NextReconcile]_vars

InitSweep ==
    SweepInit /\ CallIdle /\ RecIdle /\ DetIdle /\ AfIdle
    /\ PlIdle /\ SmsIdle /\ RkIdle
NextSweep == SweepPage
SpecSweep == InitSweep /\ [][NextSweep]_vars

InitDetect ==
    DetInit /\ CallIdle /\ RecIdle /\ SweepIdle /\ AfIdle
    /\ PlIdle /\ SmsIdle /\ RkIdle
NextDetect == DetArtist \/ DetSort
SpecDetect == InitDetect /\ [][NextDetect]_vars

InitArtists ==
    AfInit /\ CallIdle /\ RecIdle /\ SweepIdle /\ DetIdle
    /\ PlIdle /\ SmsIdle /\ RkIdle
NextArtists ==
    \/ AfLoad \/ AfScanPage \/ AfScanFail \/ AfMerge \/ AfOpen \/ AfDump
    \/ AfCrash \/ AfNextRun
SpecArtists == InitArtists /\ [][NextArtists]_vars

InitPlaylist ==
    PlInit /\ CallIdle /\ RecIdle /\ SweepIdle /\ DetIdle /\ AfIdle
    /\ SmsIdle /\ RkIdle
NextPlaylist == PlById \/ PlByName \/ PlCreate \/ PlRunAgain
SpecPlaylist == InitPlaylist /\ [][NextPlaylist]_vars

InitDigest ==
    SmsInit /\ CallIdle /\ RecIdle /\ SweepIdle /\ DetIdle /\ AfIdle
    /\ PlIdle /\ RkIdle
NextDigest == SmsSend
SpecDigest == InitDigest /\ [][NextDigest]_vars

InitRanks ==
    RkInit /\ CallIdle /\ RecIdle /\ SweepIdle /\ DetIdle /\ AfIdle
    /\ PlIdle /\ SmsIdle
NextRanks == RkAssign \/ RkReturn \/ RkLookup
SpecRanks == InitRanks /\ [][NextRanks]_vars

(***************************************************************************)
(* Properties of the reconciler                                            *)
(***************************************************************************)
\* The playlist entries that credit artist a.
EntriesOf(a) ==
    {i \in 1..Len(playlist) :
        /\ playlist[i] # NoTrack
        /\ \E k \in 1..Len(TrackInfo[playlist[i]].artists) :
              TrackInfo[playlist[i]].artists[k] = a}

\* C1: a run repeated at once with the same candidate list mutates nothing:
\* it makes no playlist_add_items call and no
\* playlist_remove_all_occurrences_of_items call.
C1_SecondRunMutatesNothing ==
    recRun = 2 => recAdds = <<>> /\ recRemoves = <<>>

\* C2: every replacement removes one old track that was in the playlist
\* and adds one new track, and when the run returns no artist for whom a candidate was added
\* has two tracks in the playlist.
C2_SupersedeLeavesOneTrack ==
    /\ \A i \in 1..Len(recRemoves) : recRemoves[i].removed >= 1
    /\ Len(recRemoves) <= Len(recAdds)
    /\ recPc = "done" =>
          \A i \in 1..Len(recAdds) :
              Cardinality(EntriesOf(recAdds[i].artist_id)) <= 1

\* The candidate the loop is about to handle has a representative track
\* whose normalized name is recorded for the candidate's artist.
NextIsNameDuplicate ==
    /\ recPc = "loop"
    /\ recIdx <= Len(releases)
    /\ AlbumTracks[releases[recIdx].album_id] # <<>>
    /\ LET r == releases[recIdx]
           nm == Normalize(TrackInfo[AlbumTracks[r.album_id][1]].name)
           recorded == artist_existing_releases[r.artist_id]
       IN \E i \in 1..Len(recorded) : recorded[i].track_name = nm

\* The adds of this run made for the same artist with track names that are
\* equal after lower-casing and trimming.
SameWorkAddedTwice ==
    \E i, j \in 1..Len(recAdds) :
        /\ i < j
        /\ recAdds[i].artist_id = recAdds[j].artist_id
        /\ Normalize(TrackInfo[recAdds[i].track_id].name)
             = Normalize(TrackInfo[recAdds[j].track_id].name)

\* C6: a candidate whose normalized track name is recorded for its artist is
\* skipped with no removal, no addition and no notification, whatever its
\* album name; two candidates of one artist whose track names differ only by
\* case or surrounding whitespace are never both added in one run.
C6_NameDuplicateSkipped ==
    /\ [][NextIsNameDuplicate =>
            /\ playlist' = playlist
            /\ recAdds' = recAdds
            /\ recRemoves' = recRemoves
            /\ added_releases' = added_releases
            /\ recIdx' = recIdx + 1]_vars
    /\ [](~SameWorkAddedTwice)

\* Two candidates of one artist, same work under different ids and album
\* names: the first was added in this run, the second was skipped.
C6_Witness ==
    /\ recPc = "loop"
    /\ recIdx = 3
    /\ Len(recAdds) = 1
    /\ recRemoves = <<>>
    /\ releases[1].artist_id = releases[2].artist_id
    /\ AlbumTracks[releases[1].album_id] # <<>>
    /\ AlbumTracks[releases[2].album_id] # <<>>
    /\ LET f1 == AlbumTracks[releases[1].album_id][1]
           f2 == AlbumTracks[releases[2].album_id][1]
       IN /\ f1 # f2
          /\ TrackInfo[f1].name # TrackInfo[f2].name
          /\ Normalize(TrackInfo[f1].name) = Normalize(TrackInfo[f2].name)
          /\ Normalize(releases[1].name) # Normalize(releases[2].name)
          /\ recAdds[1].track_id = f1
          /\ playlist = <<f1>>

\* The indices of this run's adds made for artist a.
AddsOf(a) == {i \in 1..Len(recAdds) : recAdds[i].artist_id = a}

FirstAddOf(a) == CHOOSE i \in AddsOf(a) : \A j \in AddsOf(a) : i <= j

\* C7: the notification list holds at most one release per artist, and an
\* artist with an add in this run is notified of exactly the first candidate
\* added for it, whether or not it had an entry before the run.
C7_NotifiedOncePerArtist ==
    /\ \A i, j \in 1..Len(added_releases) :
          added_releases[i].artist_id = added_releases[j].artist_id => i = j
    /\ \A a \in Artists :
          IF AddsOf(a) = {}
          THEN \A k \in 1..Len(added_releases) : added_releases[k].artist_id # a
          ELSE \E k \in 1..Len(added_releases) :
                  added_releases[k] = recAdds[FirstAddOf(a)].release

\* An artist with no entry before the run got two candidates added, the
\* second superseding the first, and one notification, of the first.
C7_Witness ==
    /\ recPc = "done"
    /\ \E a \in Artists :
          /\ Cardinality(AddsOf(a)) = 2
          /\ Len(recRemoves) = 1
          /\ recRemoves[1].track_id = recAdds[FirstAddOf(a)].track_id
          /\ Len(added_releases) = 1
          /\ added_releases[1] = recAdds[FirstAddOf(a)].release

\* The track ids present in the remote playlist.
PlaylistTrackIds == {playlist[i] : i \in 1..Len(playlist)} \ {NoTrack}

\* C18: at the start of every iteration of the candidate loop (and at the
\* return) existing_track_ids is the set of track ids in the playlist, and
\* no playlist_add_items call adds a track id the playlist holds.
C18_TrackIdsMirrorPlaylist ==
    /\ [](recPc \in {"loop", "done"} => existing_track_ids = PlaylistTrackIds)
    /\ [][Len(recAdds') > Len(recAdds) =>
             recAdds'[Len(recAdds')].track_id \notin PlaylistTrackIds]_vars

\* Both candidates are handled: a playlist holding an item without a track
\* lost a track to a supersede and gained one, another candidate was
\* skipped, and the set is the playlist's.
C18_Witness ==
    /\ recPc = "loop"
    /\ recIdx = 3
    /\ Len(recAdds) = 1
    /\ Len(recRemoves) = 1
    /\ recRemoves[1].removed >= 1
    /\ \E i \in 1..Len(playlist) : playlist[i] = NoTrack
    /\ existing_track_ids = PlaylistTrackIds
    /\ existing_track_ids # {}

\* C19: when the run returns, the representative (first) track of every
\* release of the returned notification list is in the playlist.
C19_NotifiedReleasesInPlaylist ==
    recPc = "done" =>
        \A i \in 1..Len(added_releases) :
            AlbumTracks[added_releases[i].album_id][1] \in PlaylistTrackIds

\* C20: every entry of artist_existing_releases and every value of
\* artist_existing_track names a track that is in the playlist, and a
\* candidate about to be skipped for its track name has a playlist entry
\* by its artist with that normalized name.
C20_DuplicateSkipsRestOnLiveEntries ==
    recPc = "loop" =>
        /\ \A a \in Artists :
              /\ artist_existing_track[a] # None
                    => artist_existing_track[a] \in PlaylistTrackIds
              /\ \A i \in 1..Len(artist_existing_releases[a]) :
                    artist_existing_releases[a][i].track_id \in PlaylistTrackIds
        /\ NextIsNameDuplicate =>
              \E i \in EntriesOf(releases[recIdx].artist_id) :
                  Normalize(TrackInfo[playlist[i]].name)
                      = Normalize(TrackInfo[AlbumTracks[releases[recIdx].album_id][1]].name)

(***************************************************************************)
(* Properties of the call wrapper                                          *)
(***************************************************************************)
\* The duration a rate-limited attempt signals: its Retry-After header, or
\* 5 when it carries none.
SignalledDelay(o) ==
    IF o.headers.kind = "dict" /\ o.headers.has THEN ParseInt(o.headers.val)
    ELSE 5

\* After an attempt that was rate-limited (status 429) the wrapper has slept
\* for the signalled duration, as it has after every attempt before it, and
\* is about to invoke the operation again: nothing is raised to the caller.
SleptAndRetrying ==
    (callLast.kind = "spotify" /\ callLast.status = 429) =>
        /\ callPc = "attempt"
        /\ Len(callSleeps) = callAttempts
        /\ callSleeps[Len(callSleeps)] = SignalledDelay(callLast)

\* A call that returned hands back the value of its latest attempt, and
\* every attempt before that one was rate-limited and slept on.
ReturnsFirstNotLimited ==
    callPc = "returned" =>
        /\ callLast.kind = "ok"
        /\ callResult = callLast.value
        /\ Len(callSleeps) = callAttempts - 1

\* No retry is the last one allowed: after n attempts, whatever n, the
\* (n + 1)-th is made while the call has not ended.
DueAttemptIsMade ==
    \A n \in 0..(MaxAttempts - 1) :
        (callPc = "attempt" /\ callAttempts = n) ~> (callAttempts = n + 1)

\* C8: after an attempt that was rate-limited (status 429) the wrapper has
\* slept for the signalled Retry-After duration (5 when absent) and invokes
\* the operation again, however many attempts were rate-limited before; the
\* rate limit is never raised to the caller, and the call returns the result
\* of the first attempt that is not rate-limited, so a call whose attempts
\* stop being rate-limited returns.
C8_RateLimitSleepsAndRetries ==
    /\ [](SleptAndRetrying /\ ReturnsFirstNotLimited)
    /\ DueAttemptIsMade

\* The call returned on its third attempt, after one rate-limited attempt
\* that signalled 10 seconds and one that signalled nothing.
C8_Witness ==
    /\ callPc = "returned"
    /\ callAttempts = 3
    /\ callSleeps = <<10, DefaultRetryAfter>>
    /\ callLast.kind = "ok"
    /\ callResult = callLast.value

\* The latest attempt failed with something other than a rate limit.
FailedOtherwise ==
    \/ callLast.kind = "other"
    \/ callLast.kind = "spotify" /\ callLast.status # 429

\* C9: an attempt that fails with anything other than a rate limit ends the
\* call with the failure raised to the caller, with no sleep after it and no
\* further invocation, on the first attempt or after rate-limited ones.
C9_OtherFailuresPropagate ==
    FailedOtherwise =>
        /\ callPc = "raised"
        /\ Len(callSleeps) = callAttempts - 1

\* A failure with status 500 was raised after two rate-limited attempts.
C9_Witness ==
    /\ callPc = "raised"
    /\ callAttempts = 3
    /\ callSleeps = <<DefaultRetryAfter, 2>>
    /\ callLast.kind = "spotify"
    /\ callLast.status = 500
    /\ callLast.headers.kind = "dict"
    /\ callResult = "SpotifyException"

(***************************************************************************)
(* Properties of the affinity file                                         *)
(***************************************************************************)
\* The number of saved tracks of the library that credit artist a.
SavedTracksBy(a) ==
    Cardinality({i \in 1..Len(afLibrary) :
                    /\ afLibrary[i].has_track
                    /\ \E k \in 1..Len(afLibrary[i].artists) :
                          afLibrary[i].artists[k].id = a})

\* C10: after every completed run the file holds exactly the artists that
\* appear on at least one saved track, each with liked_count equal to the
\* number of saved tracks crediting it.
C10_FileMatchesLibrary ==
    afPc = "done" =>
        /\ afFile.kind = "ok"
        /\ DOMAIN afFile.artists = {a \in AfArtistIds : SavedTracksBy(a) > 0}
        /\ \A a \in DOMAIN afFile.artists :
              afFile.artists[a].liked_count = SavedTracksBy(a)

\* A second run over a library of more than one page has dropped one
\* artist of the previous state, recounted another and added a third.
C10_Witness ==
    /\ afPc = "done"
    /\ afRun = 2
    /\ Len(afLibrary) > SavedTracksLimit
    /\ \E a \in DOMAIN afLoaded : a \notin DOMAIN afFile.artists
    /\ \E a \in DOMAIN afLoaded \cap DOMAIN afFile.artists :
          afFile.artists[a].liked_count # afLoaded[a].liked_count
    /\ \E a \in DOMAIN afFile.artists : a \notin DOMAIN afLoaded

\* The artists of a durable state as a run takes them.
KnownIn(file) == DOMAIN LoadedArtists(file)

\* C11: a run leaves recent_artist_plays of every artist it found in the
\* durable state as it was and looks up no play count for it; it looks up
\* the play count exactly of the artists whose record it creates; and the
\* file it writes carries the value of the previous file for every artist
\* that is in both.
C11_StickyPlayCount ==
    /\ afPc \in {"save", "dump", "done"} =>
          /\ afLookups \cap DOMAIN afLoaded = {}
          /\ afLookups = DOMAIN afData \ DOMAIN afLoaded
          /\ \A a \in DOMAIN afData \cap DOMAIN afLoaded :
                afData[a].recent_artist_plays = afLoaded[a].recent_artist_plays
    /\ afPc = "done" =>
          \A a \in KnownIn(afBefore) \cap KnownIn(afFile) :
              afFile.artists[a].recent_artist_plays
                  = afBefore.artists[a].recent_artist_plays

\* A later run has finished: artist B, whose record an earlier run created
\* with a looked-up play count of 7, is recounted and keeps the 7, while
\* the play count of another artist is looked up in this run.
C11_Witness ==
    /\ afPc = "done"
    /\ afRun > 1
    /\ "B" \in KnownIn(afBefore) \cap KnownIn(afFile)
    /\ afBefore.artists["B"].recent_artist_plays = 7
    /\ afFile.artists["B"].recent_artist_plays = 7
    /\ afFile.artists["B"].liked_count # afBefore.artists["B"].liked_count
    /\ "B" \notin afLookups
    /\ afLookups # {}

\* C12: loading never ends the run, and a durable state that is missing,
\* unparsable or without the artist mapping is taken as the empty mapping.
C12_LoadNeverAborts ==
    /\ afPc # "aborted"
    /\ (afPc = "scan" /\ afBefore.kind # "ok") => afLoaded = EmptyMap

\* C13: at every point of a run the file holds the complete snapshot the
\* run started from or the complete snapshot the run has built.
C13_FileIsOldOrNew ==
    \/ afFile = afBefore
    \/ afPc = "done" /\ afFile = Dumped(afData)

\* The counts a complete rebuild gives: every artist credited on a saved
\* track of the library, with the number of those tracks.
FullyRebuilt(data) ==
    /\ DOMAIN data = {a \in AfArtistIds : SavedTracksBy(a) > 0}
    /\ \A a \in DOMAIN data : data[a].liked_count = SavedTracksBy(a)

\* C17: while a run loads, scans and merges, and when it ends during the
\* scan, the file is the one the run started from; the file changes only
\* in the save step, when data holds the complete rebuild.
C17_SaveOnlyAfterRebuild ==
    /\ [](afPc \in {"load", "scan", "merge", "save", "failed", "aborted"}
            => afFile = afBefore)
    /\ [][afFile' # afFile =>
             /\ afPc \in {"save", "dump"}
             /\ FullyRebuilt(afData)]_vars

\* A later run failed on the second page of the scan, with counts of the
\* first page in hand, and the snapshot of the earlier run is still there.
C17_Witness ==
    /\ afPc = "failed"
    /\ afRun > 1
    /\ afOffset = SavedTracksLimit
    /\ afLiked # EmptyMap
    /\ afBefore.kind = "ok"
    /\ DOMAIN afBefore.artists # {}
    /\ afFile = afBefore

(***************************************************************************)
(* Properties of the detector                                              *)
(***************************************************************************)
\* Some album of artist a passes the filters of lines 189-194: it has
\* tracks and the midnight of its release day is not before the moment
\* seven days before now.
HasRecentRelease(a) ==
    \E i \in 1..Len(DetAlbums[a]) :
        LET al == DetAlbums[a][i] IN
        /\ al.total_tracks > 0
        /\ Len(al.release_date) = 3
        /\ DateTime(al.release_date[1], al.release_date[2],
                    al.release_date[3], 0)
             >= detNow - 7 * SecondsPerDay

\* C4: for an artist record with liked_count <= 1 no release is emitted and
\* no album query is made, whatever the artist released inside the window.
C4_NoReleaseAtOrBelowThreshold ==
    \A i \in 1..Len(detArtists) :
        detArtists[i].liked_count <= 1 =>
            /\ \A k \in 1..Len(detReleases) :
                  detReleases[k].artist_id # detArtists[i].artist_id
            /\ \A k \in 1..Len(detSorted) :
                  detSorted[k].artist_id # detArtists[i].artist_id
            /\ \A k \in 1..Len(detQueried) :
                  detQueried[k] # detArtists[i].artist_id

\* The detector returned releases of another artist while an artist with
\* liked_count 1 and a release inside the window was passed over.
C4_Witness ==
    /\ detPc = "done"
    /\ detSorted # <<>>
    /\ \E i \in 1..Len(detArtists) :
          /\ detArtists[i].liked_count = 1
          /\ HasRecentRelease(detArtists[i].artist_id)
          /\ i < Len(detArtists)
          /\ detArtists[i + 1].liked_count > 1

\* Position of artist a in the iteration order.
ArtistPos(a) == CHOOSE i \in 1..Len(detArtists) : detArtists[i].artist_id = a

\* Position of album al in the artist's album listing.
AlbumPos(a, al) == CHOOSE i \in 1..Len(DetAlbums[a]) : DetAlbums[a][i].id = al

\* Release x was discovered before release y.
DiscoveredBefore(x, y) ==
    \/ ArtistPos(x.artist_id) < ArtistPos(y.artist_id)
    \/ /\ x.artist_id = y.artist_id
       /\ AlbumPos(x.artist_id, x.album_id) < AlbumPos(y.artist_id, y.album_id)

Score(r) ==
    LET a == detArtists[ArtistPos(r.artist_id)] IN
    a.liked_count + a.recent_artist_plays
      + (IF r.artist_id \in DOMAIN detScores THEN detScores[r.artist_id] ELSE 0)

\* C5: the returned list holds the discovered releases in non-increasing
\* order of liked_count + recency rank + recent_artist_plays, and releases
\* of equal score keep their discovery order (artist iteration order, then
\* album order).
C5_SortedStableDescending ==
    detPc = "done" =>
        /\ Len(detSorted) = Len(detReleases)
        /\ \A k \in 1..Len(detReleases) :
              \E i \in 1..Len(detSorted) : detSorted[i] = detReleases[k]
        /\ \A i, j \in 1..Len(detSorted) :
              i < j =>
                 \/ Score(detSorted[i]) > Score(detSorted[j])
                 \/ /\ Score(detSorted[i]) = Score(detSorted[j])
                    /\ DiscoveredBefore(detSorted[i], detSorted[j])

\* The returned list has two releases of equal score from different
\* artists and a release of higher score discovered after them.
C5_Witness ==
    /\ detPc = "done"
    /\ Len(detSorted) >= 3
    /\ \E i, j, k \in 1..Len(detSorted) :
          /\ i < j /\ j < k
          /\ Score(detSorted[i]) > Score(detSorted[j])
          /\ Score(detSorted[j]) = Score(detSorted[k])
          /\ detSorted[j].artist_id # detSorted[k].artist_id
          /\ DiscoveredBefore(detSorted[j], detSorted[i])

(***************************************************************************)
(* Properties of the expiry sweep                                          *)
(***************************************************************************)
\* C3: when the sweep has completed, every entry older than the retention
\* window (more than RetentionDays whole days) has been removed and every
\* other entry is still in the playlist.
C3_SweepRemovesExactlyTheOld ==
    swPc = "done" =>
        \A i \in 1..Len(swInitial) :
            LET e == swInitial[i]
                old == e.stamped
                       /\ DeltaDays(SweepNow, e.added_at) > RetentionDays
                left == \E k \in 1..Len(swEntries) : swEntries[k] = e
            IN left <=> ~old

(***************************************************************************)
(* Properties of the playlist resolution                                   *)
(***************************************************************************)
\* The number of the listener's playlists that carry the fixed name.
NamedCount ==
    Cardinality({i \in 1..Len(plPlaylists) : plPlaylists[i] = PLAYLIST_NAME})

\* C14: the playlist with the fixed identifier is returned when it is
\* configured and reachable; otherwise a playlist with exactly the fixed
\* name is returned, a listed one whenever the listener has one, however
\* many playlists there are, and a new one only when there is none; over
\* the runs at most one playlist is created.
C14_PlaylistResolutionOrder ==
    /\ plCreated <= 1
    /\ plPc = "done" =>
          IF plConfigured = "reachable"
          THEN plResult.kind = "fixed"
          ELSE /\ plResult.kind \in {"listed", "created"}
               /\ plPlaylists[plResult.index] = PLAYLIST_NAME
               /\ plResult.kind = "created" => NamedCount = 1

(***************************************************************************)
(* Properties of the recency ranks                                         *)
(***************************************************************************)
\* C16: for N artists returned the first gets rank N-1, each next one a
\* rank one lower, the last 0; the ranks assigned lie in 0..N-1; and the
\* detector reads the rank of a returned artist and 0 for any other.
C16_RecencyRanks ==
    /\ \A a \in DOMAIN rkScores : rkScores[a] \in 0..(Len(rkItems) - 1)
    /\ rkPc = "done" =>
          /\ DOMAIN rkScores = {rkItems[i] : i \in 1..Len(rkItems)}
          /\ \A i \in 1..Len(rkItems) : rkScores[rkItems[i]] = Len(rkItems) - i
          /\ rkLooked.artist_id # None =>
                IF \E i \in 1..Len(rkItems) : rkItems[i] = rkLooked.artist_id
                THEN \E i \in 1..Len(rkItems) :
                        /\ rkItems[i] = rkLooked.artist_id
                        /\ rkLooked.score = Len(rkItems) - i
                ELSE rkLooked.score = 0

\* Several artists were returned, the first has the highest rank and the
\* last has 0, and the detector has read 0 for an artist not returned.
C16_Witness ==
    /\ rkPc = "done"
    /\ Len(rkItems) >= 2
    /\ rkScores[rkItems[1]] = Len(rkItems) - 1
    /\ rkScores[rkItems[Len(rkItems)]] = 0
    /\ rkLooked.artist_id \in RkArtistIds
    /\ \A i \in 1..Len(rkItems) : rkItems[i] # rkLooked.artist_id
    /\ rkLooked.score = 0

(***************************************************************************)
(* Properties of the digest                                                *)
(***************************************************************************)
\* relevance_score = liked_count + recency_rank + recent_artist_plays
RelevanceScore(r) == r.liked_count + r.recent_score + r.recent_artist_plays

\* The added releases that have no line in the message.
Unlisted ==
    {i \in 1..Len(smsReleases) :
        \A p \in 1..Len(smsListed) : smsListed[p] # smsReleases[i]}

\* The message lists min(5, number added) different added releases and
\* counts the rest when more than 5 were added; nothing is sent for an
\* empty list.
DigestShape ==
    IF smsReleases = <<>>
    THEN ~smsSent /\ smsListed = <<>>
    ELSE /\ smsSent
         /\ Len(smsListed) = Min(DigestTop, Len(smsReleases))
         /\ NoDup(smsListed)
         /\ \A p \in 1..Len(smsListed) :
               \E i \in 1..Len(smsReleases) : smsReleases[i] = smsListed[p]
         /\ smsMore = IF Len(smsReleases) > DigestTop
                      THEN Len(smsReleases) - DigestTop
                      ELSE 0

\* C15 as stated: the releases listed are the 5 with the highest relevance
\* score, in descending order of that score, followed by the count of the
\* added releases beyond 5.
C15_DigestTopFiveByRelevance ==
    smsPc = "done" =>
        /\ DigestShape
        /\ \A p, q \in 1..Len(smsListed) :
              p < q => RelevanceScore(smsListed[p]) >= RelevanceScore(smsListed[q])
        /\ \A i \in Unlisted : \A p \in 1..Len(smsListed) :
              RelevanceScore(smsListed[p]) >= RelevanceScore(smsReleases[i])

\* x comes before y in the digest order: more liked tracks; with as many,
\* a greater recency rank plus play count; with that equal too, added
\* earlier.
ListedBefore(x, y) ==
    \/ x.liked_count > y.liked_count
    \/ /\ x.liked_count = y.liked_count
       /\ \/ x.recent_score + x.recent_artist_plays
                 > y.recent_score + y.recent_artist_plays
          \/ /\ x.recent_score + x.recent_artist_plays
                    = y.recent_score + y.recent_artist_plays
             /\ x.name < y.name

\* C15, amended: the releases listed are the first 5 in the order of
\* liked_count, then recency rank plus play count, then order of addition,
\* followed by the count of the added releases beyond 5; nothing is sent
\* for an empty list.
C15_DigestTopFiveByLikes ==
    smsPc = "done" =>
        /\ DigestShape
        /\ \A p, q \in 1..Len(smsListed) :
              p < q => ListedBefore(smsListed[p], smsListed[q])
        /\ \A i \in Unlisted : \A p \in 1..Len(smsListed) :
              ListedBefore(smsListed[p], smsReleases[i])

\* More than 5 releases were added: the message counts the rest, a release
\* with more liked tracks is listed before one with a higher relevance
\* score, and two releases with equal values keep the order of addition.
C15_Witness ==
    /\ smsPc = "done"
    /\ Len(smsReleases) > DigestTop
    /\ smsMore = Len(smsReleases) - DigestTop
    /\ \E p, q \in 1..Len(smsListed) :
          /\ p < q
          /\ RelevanceScore(smsListed[p]) < RelevanceScore(smsListed[q])
    /\ \E p \in 1..(Len(smsListed) - 1) :
          /\ smsListed[p].liked_count = smsListed[p + 1].liked_count
          /\ RelevanceScore(smsListed[p]) = RelevanceScore(smsListed[p + 1])
          /\ smsListed[p].name < smsListed[p + 1].name

====
